---- MODULE Spec2Model ----
(***************************************************************************)
(* dhi-search-mcp: the catalog matching engine (core.py) and the command   *)
(* surface that wraps it (server.py).                                       *)
(*                                                                         *)
(* A Python str is a sequence of one-character strings, so that lower(),   *)
(* replace(), split(), join() and the substring test are computed and not  *)
(* assumed.  A request is one step: pc goes from "call" to "done" and ret  *)
(* holds what the handler returned or raised.                              *)
(***************************************************************************)
EXTENDS Integers, Sequences, FiniteSets, TLC

VARIABLES
    pc,     \* "idle": the server awaits a call; "call": a request is pending;
            \* "done": its handler has finished
    call,   \* the operation invoked and its arguments
    env,    \* what the collaborators answer during the call (scorer, token, fetches)
    ret     \* the handler's outcome: its return value or the exception it raised

vars == <<pc, call, env, ret>>

----------------------------------------------------------------------------
(* Python str operations used by core.py *)

UPPER == <<"A","B","C","D","E","F","G","H","I","J","K","L","M",
           "N","O","P","Q","R","S","T","U","V","W","X","Y","Z">>

LOWER == <<"a","b","c","d","e","f","g","h","i","j","k","l","m",
           "n","o","p","q","r","s","t","u","v","w","x","y","z">>

DIGITS == <<"0","1","2","3","4","5","6","7","8","9">>

Range(s) == {s[i] : i \in DOMAIN s}

\* str.lower() on one character
LowerChar(c) ==
    IF c \in Range(UPPER) THEN LOWER[CHOOSE i \in DOMAIN UPPER : UPPER[i] = c] ELSE c

\* s.lower()
lower(s) == [i \in 1..Len(s) |-> LowerChar(s[i])]

\* the characters str.split() and str.strip() treat as whitespace
IsSpace(c) == c \in {" ", "\t", "\n"}

\* sub in s
contains(sub, s) ==
    \E i \in 0..(Len(s) - Len(sub)) : SubSeq(s, i + 1, i + Len(sub)) = sub

\* s.replace(old, new), old non-empty: leftmost non-overlapping occurrences
RECURSIVE replace(_, _, _)
replace(s, old, new) ==
    IF Len(s) < Len(old) THEN s
    ELSE IF SubSeq(s, 1, Len(old)) = old
         THEN new \o replace(SubSeq(s, Len(old) + 1, Len(s)), old, new)
         ELSE <<s[1]>> \o replace(Tail(s), old, new)

\* s.split(): the maximal runs of non-whitespace characters, in order
RECURSIVE split(_)
split(s) ==
    IF s = <<>> THEN <<>>
    ELSE IF IsSpace(s[1]) THEN split(Tail(s))
    ELSE LET n == CHOOSE k \in 1..Len(s) :
                      /\ \A i \in 1..k : ~IsSpace(s[i])
                      /\ (k = Len(s) \/ IsSpace(s[k + 1]))
         IN  <<SubSeq(s, 1, n)>> \o split(SubSeq(s, n + 1, Len(s)))

\* sep.join(parts)
RECURSIVE join(_, _)
join(sep, parts) ==
    IF parts = <<>> THEN <<>>
    ELSE IF Len(parts) = 1 THEN parts[1]
    ELSE parts[1] \o sep \o join(sep, Tail(parts))

\* s.strip()
RECURSIVE strip(_)
strip(s) ==
    IF s = <<>> THEN s
    ELSE IF IsSpace(s[1]) THEN strip(Tail(s))
    ELSE IF IsSpace(s[Len(s)]) THEN strip(SubSeq(s, 1, Len(s) - 1))
    ELSE s

\* s[:n]
Take(s, n) == SubSeq(s, 1, IF n < Len(s) THEN n ELSE Len(s))

----------------------------------------------------------------------------
(* The scorer library called by find_matches *)

\* fuzzywuzzy's processor, applied by process.extract and WRatio to both
\* strings: every character outside [A-Za-z0-9_] becomes a space, then
\* lower() and strip()
IsWordChar(c) == c \in Range(UPPER) \cup Range(LOWER) \cup Range(DIGITS) \cup {"_"}

full_process(s) == strip(lower([i \in 1..Len(s) |-> IF IsWordChar(s[i]) THEN s[i] ELSE " "]))

\* the length of the common run of a from i + 1 and b from j + 1
RECURSIVE RunLen(_, _, _, _)
RunLen(a, b, i, j) ==
    IF i < Len(a) /\ j < Len(b) /\ a[i + 1] = b[j + 1]
    THEN 1 + RunLen(a, b, i + 1, j + 1) ELSE 0

\* difflib's find_longest_match over all of a and b: <<i, j, k>> with
\* a[i+1..i+k] = b[j+1..j+k], k largest, then i smallest, then j smallest
LongestMatch(a, b) ==
    LET Ms == {<<p[1], p[2], RunLen(a, b, p[1], p[2])>> :
                   p \in {q \in (0..(Len(a) - 1)) \X (0..(Len(b) - 1)) :
                              a[q[1] + 1] = b[q[2] + 1]}}
    IN  IF Ms = {} THEN <<0, 0, 0>>
        ELSE CHOOSE m \in Ms :
                 \A o \in Ms :
                     \/ o[3] < m[3]
                     \/ o[3] = m[3] /\ m[1] < o[1]
                     \/ o[3] = m[3] /\ m[1] = o[1] /\ m[2] <= o[2]

\* difflib's get_matching_blocks without the final sentinel: the longest
\* match, then the blocks to its left and to its right
RECURSIVE MatchingBlocks(_, _, _, _)
MatchingBlocks(a, b, aoff, boff) ==
    LET m == LongestMatch(a, b)
    IN  IF m[3] = 0 THEN {}
        ELSE MatchingBlocks(SubSeq(a, 1, m[1]), SubSeq(b, 1, m[2]), aoff, boff)
             \cup {<<aoff + m[1], boff + m[2], m[3]>>}
             \cup MatchingBlocks(SubSeq(a, m[1] + m[3] + 1, Len(a)),
                                 SubSeq(b, m[2] + m[3] + 1, Len(b)),
                                 aoff + m[1] + m[3], boff + m[2] + m[3])

RECURSIVE SumSet(_)
SumSet(S) == IF S = {} THEN 0 ELSE LET x == CHOOSE y \in S : TRUE IN x[3] + SumSet(S \ {x})

\* SequenceMatcher.ratio() as the exact fraction <<2 * matches, total length>>
Matches(a, b) == SumSet(MatchingBlocks(a, b, 0, 0))

\* utils.intr(100 * num / den): round to nearest, ties to even
Intr100(num, den) ==
    LET q == (100 * num) \div den
        r == (100 * num) % den
    IN  IF 2 * r < den THEN q
        ELSE IF 2 * r > den THEN q + 1
        ELSE IF q % 2 = 0 THEN q ELSE q + 1

\* fuzz.partial_ratio(s1, s2)
partial_ratio(s1, s2) ==
    IF s1 = s2 THEN 100
    ELSE IF Len(s1) = 0 \/ Len(s2) = 0 THEN 0
    ELSE LET shorter == IF Len(s1) <= Len(s2) THEN s1 ELSE s2
             longer == IF Len(s1) <= Len(s2) THEN s2 ELSE s1
             blocks == MatchingBlocks(shorter, longer, 0, 0)
                          \cup {<<Len(shorter), Len(longer), 0>>}
             starts == {IF b[2] - b[1] > 0 THEN b[2] - b[1] ELSE 0 : b \in blocks}
             Window(st) == SubSeq(longer, st + 1,
                                  IF st + Len(shorter) < Len(longer)
                                  THEN st + Len(shorter) ELSE Len(longer))
             \* each window's ratio as <<2 * matches, total length>>
             rs == {<<2 * Matches(shorter, Window(st)), Len(shorter) + Len(Window(st))>> :
                        st \in starts}
             best == CHOOSE r \in rs : \A o \in rs : o[1] * r[2] <= r[1] * o[2]
         IN  IF \E r \in rs : 1000 * r[1] > 995 * r[2] THEN 100
             ELSE Intr100(best[1], best[2])

----------------------------------------------------------------------------
(* find_matches *)

aliases == << <<<<".","n","e","t">>, <<"d","o","t","n","e","t">>>> >>

stop_words == {<<"r","u","n","t","i","m","e">>, <<"s","d","k">>, <<"c","l","i">>, <<"a","g","e","n","t">>, <<"o","p","e","r","a","t","o","r">>, <<"s","e","r","v","e","r">>,
               <<"c","l","i","e","n","t">>, <<"d","r","i","v","e","r">>, <<"p","l","u","g","i","n">>, <<"c","o","n","t","r","o","l","l","e","r">>}

keywords_to_enforce == <<<<"c","l","i">>, <<"s","d","k">>>>

ExtractLimit == 5
ScoreFloor == 85
CoreScoreFloor == 80
CoreNameMinLen == 2

\* for k, v in aliases.items(): if k in query: query = query.replace(k, v)
RECURSIVE ApplyAliases(_, _)
ApplyAliases(query, al) ==
    IF al = <<>> THEN query
    ELSE ApplyAliases(IF contains(al[1][1], query)
                      THEN replace(query, al[1][1], al[1][2]) ELSE query,
                      Tail(al))

\* query = input_image.lower(), then the aliases
NormalizeQuery(input_image) == ApplyAliases(lower(input_image), aliases)

\* core_parts = [p for p in query_parts if p not in stop_words]
CoreParts(query_parts) == SelectSeq(query_parts, LAMBDA p : p \notin stop_words)

\* CoreName with the fallback re-joining the tokens instead of keeping the query
CoreNameJoined(query) ==
    LET core_parts == CoreParts(split(query))
    IN  IF core_parts # <<>> THEN join(<<" ">>, core_parts) ELSE join(<<" ">>, split(query))

\* core_name = " ".join(core_parts) if core_parts else query
CoreName(query) ==
    LET core_parts == CoreParts(split(query))
    IN  IF core_parts # <<>> THEN join(<<" ">>, core_parts) ELSE query

\* a sequence of <<name, score>> ordered by score, highest first; equal
\* scores keep their order (Python's sort and heapq.nlargest are stable)
RECURSIVE InsertDesc(_, _)
InsertDesc(x, s) ==
    IF s = <<>> THEN <<x>>
    ELSE IF s[1][2] >= x[2] THEN <<s[1]>> \o InsertDesc(x, Tail(s))
    ELSE <<x>> \o s

RECURSIVE StableDesc(_)
StableDesc(s) ==
    IF s = <<>> THEN <<>>
    ELSE InsertDesc(s[Len(s)], StableDesc(SubSeq(s, 1, Len(s) - 1)))

\* process_extract without the limit
process_extract_all(catalog_images, scores) ==
    StableDesc([i \in 1..Len(catalog_images) |-> <<catalog_images[i], scores[i]>>])

\* process.extract(query, catalog_images, limit=5, scorer=fuzz.WRatio):
\* every choice with its score, the 5 highest (heapq.nlargest);
\* scores[i] is WRatio(query, catalog_images[i])
process_extract(catalog_images, scores) ==
    Take(StableDesc([i \in 1..Len(catalog_images) |-> <<catalog_images[i], scores[i]>>]),
         ExtractLimit)

\* name.replace('-', ' ').replace('_', ' ').lower()
NameClean(name) == lower(replace(replace(name, <<"-">>, <<" ">>), <<"_">>, <<" ">>))

\* the core-name rule: FALSE when the candidate is skipped by it
CoreNameOk(core_name, name_clean) ==
    ~ /\ core_name # <<>>
      /\ Len(core_name) > CoreNameMinLen
      /\ ~contains(core_name, name_clean)
      /\ partial_ratio(core_name, name_clean) < CoreScoreFloor

\* first loop over keywords_to_enforce: should_continue
ShouldContinue(query_parts, name_clean) ==
    \E i \in DOMAIN keywords_to_enforce :
        /\ keywords_to_enforce[i] \in Range(query_parts)
        /\ ~contains(keywords_to_enforce[i], name_clean)

\* second loop: all_keywords_found_in_tags
AllKeywordsFoundInTags(query_parts, name_clean, tags_str) ==
    \A i \in DOMAIN keywords_to_enforce :
        keywords_to_enforce[i] \in Range(query_parts) =>
            ~ (~contains(keywords_to_enforce[i], name_clean)
               /\ ~contains(keywords_to_enforce[i], tags_str))

\* catalog_image_data.get(name, [])
TagsOf(catalog_image_data, name) ==
    IF \E i \in DOMAIN catalog_image_data : catalog_image_data[i].name = name
    THEN catalog_image_data[CHOOSE i \in DOMAIN catalog_image_data :
                                catalog_image_data[i].name = name].tags
    ELSE <<>>

\* KeywordsOk without the fallback to the tags
KeywordsOkNameOnly(query_parts, name_clean, tags) ==
    ~ShouldContinue(query_parts, name_clean)

\* the keyword-enforcement rule: FALSE when the candidate is skipped by it
KeywordsOk(query_parts, name_clean, tags) ==
    ShouldContinue(query_parts, name_clean) =>
        AllKeywordsFoundInTags(query_parts, name_clean, lower(join(<<" ">>, tags)))

\* SortResults without reverse=True: lowest score first
RECURSIVE InsertAsc(_, _)
InsertAsc(x, s) ==
    IF s = <<>> THEN <<x>>
    ELSE IF s[1][2] <= x[2] THEN <<s[1]>> \o InsertAsc(x, Tail(s))
    ELSE <<x>> \o s

RECURSIVE SortResultsAscending(_)
SortResultsAscending(results) ==
    IF results = <<>> THEN <<>>
    ELSE InsertAsc(results[Len(results)],
                   SortResultsAscending(SubSeq(results, 1, Len(results) - 1)))

\* results.sort(key=lambda x: x[1], reverse=True)
SortResults(results) == StableDesc(results)

\* find_matches(input_image, catalog_image_data); scores[i] is the scorer's
\* value for the normalized query and the i-th catalog name.  The record
\* holds the function's locals and, in names, the list it returns.
find_matches(input_image, catalog_image_data, scores) ==
    LET catalog_images == [i \in 1..Len(catalog_image_data) |-> catalog_image_data[i].name]
        query == NormalizeQuery(input_image)
        query_parts == split(query)
        core_name == CoreName(query)
        matches == process_extract(catalog_images, scores)
        Keep(m) ==
            /\ ~(m[2] < ScoreFloor)
            /\ CoreNameOk(core_name, NameClean(m[1]))
            /\ KeywordsOk(query_parts, NameClean(m[1]), TagsOf(catalog_image_data, m[1]))
        results == SortResults(SelectSeq(matches, Keep))
    IN  [query |-> query, query_parts |-> query_parts, core_name |-> core_name,
         matches |-> matches, results |-> results,
         names |-> [i \in 1..Len(results) |-> results[i][1]]]

----------------------------------------------------------------------------
(* The scorer's possible values *)

\* fuzz.WRatio(query, name) as process.extract calls it: 0 when either
\* processed string is empty, 100 when the processed strings are equal, and
\* otherwise a value the library computes, below 100 for strings this short
ScoreValues == {84, 85, 95}

WRatioValues(query, name) ==
    IF full_process(query) = <<>> \/ full_process(name) = <<>> THEN {0}
    ELSE IF full_process(query) = full_process(name) THEN {100}
    ELSE ScoreValues

\* the score lists the scorer can produce for a query over a catalog
RECURSIVE ScoreLists(_, _)
ScoreLists(query, catalog_image_data) ==
    IF catalog_image_data = <<>> THEN {<<>>}
    ELSE LET n == Len(catalog_image_data)
             last == WRatioValues(query, catalog_image_data[n].name)
         IN  {Append(w, v) : w \in ScoreLists(query, SubSeq(catalog_image_data, 1, n - 1)),
                             v \in last}

----------------------------------------------------------------------------
(* Inputs of the find_matches specification *)

MaxCatalog == 6
MaxEntries == 2

QueryPool == {<<"f","o","o">>, <<"F","o","o">>, <<"f","o","o"," ","c","l","i">>, <<"f","o","o"," ","s","d","k">>, <<"f","o","o"," ","s","d","k"," ","c","l","i">>, <<"c","l","i">>, <<"s","d","k"," "," ","c","l","i">>,
              <<" "," "," ">>, <<>>, <<"a","-","b">>, <<"a","s","p",".","n","e","t">>, <<"F","o","o","-","B","a","r">>, <<"f","o","o","-","c","l","i">>, <<"f","o","o","_","s","d","k">>, <<"c","l","i","e","n","t">>,
              <<" ","f","o","o"," "," ","r","u","n","t","i","m","e"," ">>}

Entry(n, t) == [name |-> n, tags |-> t]

\* catalog entries for the filter rules
EntryPool == <<Entry(<<"f","o","o">>, <<>>),
               Entry(<<"f","o","o">>, <<<<"c","l","i","-","t","o","o","l","s">>>>),
               Entry(<<"f","o","o">>, <<<<"C","L","I">>, <<"s","d","k","-","1">>>>),
               Entry(<<"f","o","o","-","c","l","i">>, <<>>),
               Entry(<<"f","o","o","_","s","d","k">>, <<<<"1","-","c","l","i">>>>),
               Entry(<<"a","-","b">>, <<>>),
               Entry(<<"a","s","p",".","n","e","t">>, <<>>),
               Entry(<<"F","o","o","-","B","a","r">>, <<<<"s">>, <<"d","k">>>>),
               Entry(<<"c","l","i","e","n","t">>, <<>>)>>

\* catalog entries for the ranking
RankPool == <<Entry(<<"f","o","o","-","a">>, <<>>), Entry(<<"f","o","o","-","b">>, <<>>), Entry(<<"f","o","o","-","c","l","i">>, <<>>),
              Entry(<<"f","o","o","-","c">>, <<>>), Entry(<<"f","o","o">>, <<<<"s","d","k">>>>), Entry(<<"f","o","o","-","d">>, <<>>),
              Entry(<<"f","o","o","-","e">>, <<>>), Entry(<<"f","o","o","-","f">>, <<>>)>>

RECURSIVE SeqsUpTo(_, _)
SeqsUpTo(S, n) ==
    IF n = 0 THEN {<<>>}
    ELSE LET shorter == SeqsUpTo(S, n - 1)
         IN  shorter \cup {Append(s, x) : s \in shorter, x \in S}

DistinctNames(c) == \A i, j \in DOMAIN c : c[i].name = c[j].name => i = j

min(a, b) == IF a < b THEN a ELSE b

Catalogs ==
    {c \in SeqsUpTo(Range(EntryPool), MaxEntries) : DistinctNames(c)}
    \cup {SubSeq(RankPool, 1, k) : k \in 0..min(MaxCatalog, Len(RankPool))}

NoRet == [kind |-> "none"]

InitFind ==
    \E q \in QueryPool, c \in Catalogs :
        \E w \in ScoreLists(NormalizeQuery(q), c) :
            /\ pc = "call"
            /\ call = [op |-> "find_matches", input_image |-> q, catalog |-> c]
            /\ env = [scores |-> w]
            /\ ret = NoRet

FindMatches ==
    /\ pc = "call"
    /\ call.op = "find_matches"
    /\ ret' = [kind |-> "return",
               value |-> find_matches(call.input_image, call.catalog, env.scores)]
    /\ pc' = "done"
    /\ UNCHANGED <<call, env>>

NextFind == FindMatches

SpecFind == InitFind /\ [][NextFind]_vars

----------------------------------------------------------------------------
(* Python values, as the JSON responses deliver them, and the operations   *)
(* core.py and server.py apply to them.  A value is [t, v]: t its type, v  *)
(* its payload (a dict's payload is its <<key, value>> pairs in insertion  *)
(* order).  An operation yields [exc, val]: exc names the exception raised *)
(* ("" when none).                                                         *)

None == [t |-> "none", v |-> <<>>]
Num(digits) == [t |-> "int", v |-> digits]
Str(s) == [t |-> "str", v |-> s]
List(xs) == [t |-> "list", v |-> xs]
Dict(pairs) == [t |-> "dict", v |-> pairs]

Ok(x) == [exc |-> "", val |-> x]
Raise(e) == [exc |-> e, val |-> None]

\* x == y
SameValue(x, y) == x.t = y.t /\ x.v = y.v

HasKey(d, key) == \E i \in DOMAIN d.v : d.v[i][1] = key
ValueAt(d, key) == d.v[CHOOSE i \in DOMAIN d.v : d.v[i][1] = key][2]

\* x[key] for a str key
getitem(x, key) ==
    IF x.t = "dict"
    THEN IF HasKey(x, key) THEN Ok(ValueAt(x, key)) ELSE Raise("KeyError")
    ELSE Raise("TypeError")

\* x.get(key, default)
dict_get(x, key, default) ==
    IF x.t = "dict"
    THEN Ok(IF HasKey(x, key) THEN ValueAt(x, key) ELSE default)
    ELSE Raise("AttributeError")

\* what "for item in x" iterates over: a list's elements, a dict's keys, a
\* str's characters; None and numbers are not iterable
py_iter(x) ==
    CASE x.t = "list" -> Ok(x.v)
      [] x.t = "dict" -> Ok([i \in 1..Len(x.v) |-> Str(x.v[i][1])])
      [] x.t = "str" -> Ok([i \in 1..Len(x.v) |-> Str(<<x.v[i]>>)])
      [] OTHER -> Raise("TypeError")

\* bool(x)
truthy(x) ==
    CASE x.t = "none" -> FALSE
      [] x.t = "int" -> x.v # <<"0">>
      [] OTHER -> x.v # <<>>

\* hash(x) succeeds: x can be a dict key
hashable(x) == x.t \in {"none", "int", "str"}

\* d[key] = value on a dict kept as <<key, value>> pairs with value keys
SetItem(pairs, key, value) ==
    IF \E i \in DOMAIN pairs : SameValue(pairs[i][1], key)
    THEN [i \in 1..Len(pairs) |->
             IF SameValue(pairs[i][1], key) THEN <<key, value>> ELSE pairs[i]]
    ELSE Append(pairs, <<key, value>>)

\* d.get(key, 0)
CountOf(pairs, key) ==
    IF \E i \in DOMAIN pairs : SameValue(pairs[i][1], key)
    THEN pairs[CHOOSE i \in DOMAIN pairs : SameValue(pairs[i][1], key)][2]
    ELSE 0

----------------------------------------------------------------------------
(* extract_image_names *)

\* ExtractLoop that counts the item's type before it looks at the name
RECURSIVE ExtractLoopCountsAll(_, _, _, _)
ExtractLoopCountsAll(items, k, image_data, stats) ==
    IF k > Len(items) THEN [exc |-> "", image_data |-> image_data, stats |-> stats]
    ELSE LET name == dict_get(items[k], <<"n","a","m","e">>, None)
             item_type == dict_get(items[k], <<"t","y","p","e">>, Str(<<"U","n","k","n","o","w","n">>))
             tags == dict_get(items[k], <<"t","a","g","N","a","m","e","s">>, List(<<>>))
         IN  IF name.exc # "" THEN [exc |-> name.exc, image_data |-> <<>>, stats |-> <<>>]
             ELSE IF ~hashable(item_type.val)
                  THEN [exc |-> "TypeError", image_data |-> <<>>, stats |-> <<>>]
             ELSE IF ~truthy(name.val)
                  THEN ExtractLoopCountsAll(items, k + 1, image_data,
                           SetItem(stats, item_type.val, CountOf(stats, item_type.val) + 1))
             ELSE IF ~hashable(name.val)
                  THEN [exc |-> "TypeError", image_data |-> <<>>, stats |-> <<>>]
             ELSE ExtractLoopCountsAll(items, k + 1,
                      SetItem(image_data, name.val,
                              IF truthy(tags.val) THEN tags.val ELSE List(<<>>)),
                      SetItem(stats, item_type.val, CountOf(stats, item_type.val) + 1))

\* the body of "for item in items", from item k on
RECURSIVE ExtractLoop(_, _, _, _)
ExtractLoop(items, k, image_data, stats) ==
    IF k > Len(items) THEN [exc |-> "", image_data |-> image_data, stats |-> stats]
    ELSE LET name == dict_get(items[k], <<"n","a","m","e">>, None)
             item_type == dict_get(items[k], <<"t","y","p","e">>, Str(<<"U","n","k","n","o","w","n">>))
             tags == dict_get(items[k], <<"t","a","g","N","a","m","e","s">>, List(<<>>))
         IN  IF name.exc # "" THEN [exc |-> name.exc, image_data |-> <<>>, stats |-> <<>>]
             ELSE IF ~truthy(name.val)
                  THEN ExtractLoop(items, k + 1, image_data, stats)
             ELSE IF ~hashable(item_type.val) \/ ~hashable(name.val)
                  THEN [exc |-> "TypeError", image_data |-> <<>>, stats |-> <<>>]
             ELSE ExtractLoop(items, k + 1,
                      SetItem(image_data, name.val,
                              IF truthy(tags.val) THEN tags.val ELSE List(<<>>)),
                      SetItem(stats, item_type.val, CountOf(stats, item_type.val) + 1))

\* catalog_data['data']['dhiListRepositories']['items']
ItemsOf(catalog_data) ==
    LET data == getitem(catalog_data, <<"d","a","t","a">>)
        repos == IF data.exc = "" THEN getitem(data.val, <<"d","h","i","L","i","s","t","R","e","p","o","s","i","t","o","r","i","e","s">>) ELSE data
    IN  IF repos.exc = "" THEN getitem(repos.val, <<"i","t","e","m","s">>) ELSE repos

\* extract_image_names(catalog_data): KeyError and TypeError raised in the
\* try block become DHISearchError; any other exception propagates
extract_image_names(catalog_data) ==
    LET items == ItemsOf(catalog_data)
        elems == IF items.exc = "" THEN py_iter(items.val) ELSE items
        body == IF elems.exc = ""
                THEN ExtractLoop(elems.val, 1, <<>>, <<>>)
                ELSE [exc |-> elems.exc, image_data |-> <<>>, stats |-> <<>>]
    IN  IF body.exc \in {"KeyError", "TypeError"}
        THEN [exc |-> "DHISearchError", image_data |-> <<>>, stats |-> <<>>]
        ELSE body

----------------------------------------------------------------------------
(* check_compliance *)

\* any(marker in t for t in tags_lower)
RECURSIVE AnyContains(_, _)
AnyContains(marker, tags_lower) ==
    IF tags_lower = <<>> THEN FALSE
    ELSE contains(marker, tags_lower[1]) \/ AnyContains(marker, Tail(tags_lower))

\* check_compliance looking for "fips" without the leading hyphen
check_compliance_no_hyphen(tags) ==
    LET tags_lower == [i \in 1..Len(tags) |-> lower(tags[i])]
    IN  [fips |-> AnyContains(<<"f","i","p","s">>, tags_lower),
         stig |-> AnyContains(<<"s","t","i","g">>, tags_lower)]

\* check_compliance(tags)
check_compliance(tags) ==
    LET tags_lower == [i \in 1..Len(tags) |-> lower(tags[i])]
    IN  [fips |-> AnyContains(<<"-","f","i","p","s">>, tags_lower),
         stig |-> AnyContains(<<"s","t","i","g">>, tags_lower)]

----------------------------------------------------------------------------
(* Inputs of the extract_image_names specification *)

MaxItems == 3

Item(pairs) == Dict(pairs)

\* the elements an items list is drawn from: records with and without a
\* name, a type and tags, and elements that are not records
ItemPool ==
    <<Item(<< <<<<"n","a","m","e">>, Str(<<"f","o","o">>)>>, <<<<"t","y","p","e">>, Str(<<"I","M","A","G","E">>)>>,
             <<<<"t","a","g","N","a","m","e","s">>, List(<<Str(<<"7">>), Str(<<"7","-","f","i","p","s">>)>>)>> >>),
     Item(<< <<<<"n","a","m","e">>, Str(<<"f","o","o">>)>>, <<<<"t","y","p","e">>, Str(<<"H","E","L","M","_","C","H","A","R","T">>)>> >>),
     Item(<< <<<<"n","a","m","e">>, Str(<<"b","a","r">>)>>, <<<<"t","a","g","N","a","m","e","s">>, None>> >>),
     Item(<< <<<<"n","a","m","e">>, Str(<<"b","a","r">>)>>, <<<<"t","y","p","e">>, None>>, <<<<"t","a","g","N","a","m","e","s">>, List(<<>>)>> >>),
     Item(<< <<<<"t","y","p","e">>, Str(<<"I","M","A","G","E">>)>> >>),
     Item(<< <<<<"n","a","m","e">>, None>>, <<<<"t","y","p","e">>, Str(<<"I","M","A","G","E">>)>>,
             <<<<"t","a","g","N","a","m","e","s">>, List(<<Str(<<"7">>)>>)>> >>),
     Item(<< <<<<"n","a","m","e">>, Str(<<>>)>>, <<<<"t","y","p","e">>, Str(<<"H","E","L","M","_","C","H","A","R","T">>)>> >>),
     Item(<< <<<<"n","a","m","e">>, Str(<<"b","a","z">>)>>, <<<<"t","y","p","e">>, Str(<<"U","n","k","n","o","w","n">>)>> >>),
     Item(<< <<<<"n","a","m","e">>, List(<<Str(<<"x">>)>>)>>, <<<<"t","y","p","e">>, Str(<<"I","M","A","G","E">>)>> >>),
     None,
     Str(<<"x">>),
     List(<<>>)>>

\* {"data": {"dhiListRepositories": {"items": items}}}
Response(items) ==
    Dict(<< <<<<"d","a","t","a">>, Dict(<< <<<<"d","h","i","L","i","s","t","R","e","p","o","s","i","t","o","r","i","e","s">>,
                                Dict(<< <<<<"i","t","e","m","s">>, items>> >>)>> >>)>> >>)

\* responses whose nesting is missing or whose items is not a list
MisshapenResponses ==
    <<None,
     List(<<>>),
     Dict(<<>>),
     Dict(<< <<<<"e","r","r","o","r","s">>, List(<<Str(<<"x">>)>>)>> >>),
     Dict(<< <<<<"d","a","t","a">>, None>> >>),
     Dict(<< <<<<"d","a","t","a">>, List(<<>>)>> >>),
     Dict(<< <<<<"d","a","t","a">>, Dict(<<>>)>> >>),
     Dict(<< <<<<"d","a","t","a">>, Dict(<< <<<<"d","h","i","L","i","s","t","R","e","p","o","s","i","t","o","r","i","e","s">>, None>> >>)>> >>),
     Dict(<< <<<<"d","a","t","a">>, Dict(<< <<<<"d","h","i","L","i","s","t","R","e","p","o","s","i","t","o","r","i","e","s">>, Dict(<<>>)>> >>)>> >>),
     Response(None),
     Response(Num(<<"7">>)),
     Response(Str(<<"a","b">>)),
     Response(Str(<<>>)),
     Response(Dict(<<>>)),
     Response(Dict(<< <<<<"n","a","m","e">>, Str(<<"f","o","o">>)>> >>))>>

InitExtract ==
    \E ix \in SeqsUpTo(DOMAIN ItemPool, MaxItems)
              \cup {<<0, i>> : i \in DOMAIN MisshapenResponses} :
        /\ pc = "call"
        /\ call = [op |-> "extract_image_names",
                   catalog_data |-> IF Len(ix) = 2 /\ ix[1] = 0
                                    THEN MisshapenResponses[ix[2]]
                                    ELSE Response(List([k \in 1..Len(ix) |-> ItemPool[ix[k]]]))]
        /\ env = [scores |-> <<>>]
        /\ ret = NoRet

ExtractImageNames ==
    /\ pc = "call"
    /\ call.op = "extract_image_names"
    /\ LET r == extract_image_names(call.catalog_data)
       IN  ret' = IF r.exc = ""
                  THEN [kind |-> "return", exc |-> "",
                        image_data |-> r.image_data, stats |-> r.stats]
                  ELSE [kind |-> "raise", exc |-> r.exc,
                        image_data |-> <<>>, stats |-> <<>>]
    /\ pc' = "done"
    /\ UNCHANGED <<call, env>>

NextExtract == ExtractImageNames

SpecExtract == InitExtract /\ [][NextExtract]_vars

----------------------------------------------------------------------------
(* Inputs of the check_compliance specification *)

MaxTags == 3

TagPool == {<<"7">>, <<"7","-","f","i","p","s">>, <<"7","-","F","I","P","S","-","s","l","i","m">>, <<"f","i","p","s">>, <<"F","i","p","s","-","1">>, <<"s","t","i","g">>, <<"8","-","S","T","I","G">>,
            <<"-","f","i","p","s","t","i","g">>, <<"l","a","t","e","s","t">>, <<"s","t","-","i","g">>}

InitCompliance ==
    \E tags \in SeqsUpTo(TagPool, MaxTags) :
        /\ pc = "call"
        /\ call = [op |-> "check_compliance", tags |-> tags]
        /\ env = [scores |-> <<>>]
        /\ ret = NoRet

CheckCompliance ==
    /\ pc = "call"
    /\ call.op = "check_compliance"
    /\ ret' = [kind |-> "return", value |-> check_compliance(call.tags)]
    /\ pc' = "done"
    /\ UNCHANGED <<call, env>>

NextCompliance == CheckCompliance

SpecCompliance == InitCompliance /\ [][NextCompliance]_vars

----------------------------------------------------------------------------
(* Helpers of the command surface *)

\* sum(stats.values())
RECURSIVE SumStats(_)
SumStats(stats) == IF stats = <<>> THEN 0 ELSE stats[1][2] + SumStats(Tail(stats))

\* the characters in code-point order
CodePoints == <<"\t", "\n", " ", "-", ".">> \o DIGITS \o UPPER \o <<"_">> \o LOWER

Ord(c) == CHOOSE i \in DOMAIN CodePoints : CodePoints[i] = c

\* a < b for str
RECURSIVE StrLess(_, _)
StrLess(a, b) ==
    IF b = <<>> THEN FALSE
    ELSE IF a = <<>> THEN TRUE
    ELSE IF a[1] = b[1] THEN StrLess(Tail(a), Tail(b))
    ELSE Ord(a[1]) < Ord(b[1])

RECURSIVE InsertSorted(_, _)
InsertSorted(x, s) ==
    IF s = <<>> THEN <<x>>
    ELSE IF StrLess(x, s[1]) THEN <<x>> \o s
    ELSE <<s[1]>> \o InsertSorted(x, Tail(s))

\* sorted(names) for a list of str
RECURSIVE sorted(_)
sorted(names) ==
    IF names = <<>> THEN <<>>
    ELSE InsertSorted(names[Len(names)], sorted(SubSeq(names, 1, Len(names) - 1)))

\* [item['name'] for item in items
\*     if item.get('type') == image_type and item.get('name')], from item k on
RECURSIVE FilterLoop(_, _, _, _)
FilterLoop(items, k, image_type, acc) ==
    IF k > Len(items) THEN Ok(acc)
    ELSE LET item_type == dict_get(items[k], <<"t","y","p","e">>, None)
             name == dict_get(items[k], <<"n","a","m","e">>, None)
         IN  IF item_type.exc # "" THEN item_type
             ELSE IF SameValue(item_type.val, image_type) /\ truthy(name.val)
                  THEN FilterLoop(items, k + 1, image_type, Append(acc, name.val.v))
             ELSE FilterLoop(items, k + 1, image_type, acc)

----------------------------------------------------------------------------
(* The collaborators: get_jwt_token and fetch_catalog.  Each call either   *)
(* raises DHISearchError or returns: the token, or the response's JSON.    *)

\* get_jwt_token(): token_ok says whether the exchange succeeds
get_jwt_token(token_ok) ==
    IF token_ok THEN Ok(Str(<<"j","w","t">>)) ELSE Raise("DHISearchError")

\* fetch_catalog(token, query): answer is what the request yields, a
\* DHISearchError or the JSON of the response
fetch_catalog(answer) == answer

\* get_catalog_data()
get_catalog_data(token_ok, answer) ==
    LET token == get_jwt_token(token_ok)
        catalog_data == fetch_catalog(answer)
    IN  IF token.exc # "" THEN [exc |-> token.exc, image_data |-> <<>>, stats |-> <<>>]
        ELSE IF catalog_data.exc # ""
             THEN [exc |-> catalog_data.exc, image_data |-> <<>>, stats |-> <<>>]
        ELSE extract_image_names(catalog_data.val)

\* the first item whose name equals repo_name, from item k on
RECURSIVE RepositoryLoop(_, _, _)
RepositoryLoop(items, k, repo_name) ==
    IF k > Len(items) THEN Raise("DHISearchError")
    ELSE LET name == dict_get(items[k], <<"n","a","m","e">>, None)
             tags == dict_get(items[k], <<"t","a","g","N","a","m","e","s">>, List(<<>>))
         IN  IF name.exc # "" THEN name
             ELSE IF SameValue(name.val, Str(repo_name))
                  THEN Ok(IF truthy(tags.val) THEN tags.val ELSE List(<<>>))
             ELSE RepositoryLoop(items, k + 1, repo_name)

\* get_repository_tags(repo_name)
get_repository_tags(repo_name, token_ok, answer) ==
    LET token == get_jwt_token(token_ok)
        catalog_data == fetch_catalog(answer)
        items == ItemsOf(catalog_data.val)
        elems == IF items.exc = "" THEN py_iter(items.val) ELSE items
        body == IF elems.exc = "" THEN RepositoryLoop(elems.val, 1, repo_name) ELSE elems
    IN  IF token.exc # "" THEN token
        ELSE IF catalog_data.exc # "" THEN catalog_data
        ELSE IF body.exc \in {"KeyError", "TypeError"} THEN Raise("DHISearchError")
        ELSE body

\* x in container, x a str
py_in(x, container) ==
    CASE container.t = "list" ->
             Ok(\E i \in DOMAIN container.v : SameValue(container.v[i], Str(x)))
      [] container.t = "dict" -> Ok(HasKey(container, x))
      [] container.t = "str" -> Ok(contains(x, container.v))
      [] OTHER -> Raise("TypeError")

\* "for defn in tag_definitions", from definition k on
RECURSIVE SupportLoop(_, _, _, _)
SupportLoop(defs, k, repo_name, tag) ==
    IF k > Len(defs)
    THEN Ok([repository |-> repo_name, tag |-> tag, info |-> "tag not found"])
    ELSE LET tag_names == dict_get(defs[k], <<"t","a","g","N","a","m","e","s">>, List(<<>>))
             found == IF tag_names.exc = "" THEN py_in(tag, tag_names.val) ELSE tag_names
         IN  IF found.exc # "" THEN found
             ELSE IF found.val
                  THEN Ok([repository |-> repo_name, tag |-> tag,
                           display_name |-> dict_get(defs[k], <<"d","i","s","p","l","a","y","N","a","m","e">>, None).val,
                           end_of_life |-> dict_get(defs[k], <<"e","n","d","O","f","L","i","f","e">>, None).val,
                           end_of_support |-> dict_get(defs[k], <<"e","n","d","O","f","S","u","p","p","o","r","t">>, None).val])
             ELSE SupportLoop(defs, k + 1, repo_name, tag)

\* get_tag_support_info(repo_name, tag)
get_tag_support_info(repo_name, tag, token_ok, answer) ==
    LET token == get_jwt_token(token_ok)
        response == fetch_catalog(answer)
        data == dict_get(response.val, <<"d","a","t","a">>, Dict(<<>>))
        repo == IF data.exc = "" THEN dict_get(data.val, <<"d","h","i","R","e","p","o","s","i","t","o","r","y">>, Dict(<<>>)) ELSE data
        tag_definitions ==
            IF repo.exc = "" THEN dict_get(repo.val, <<"t","a","g","D","e","f","i","n","i","t","i","o","n","s">>, List(<<>>)) ELSE repo
        defs == IF tag_definitions.exc = "" THEN py_iter(tag_definitions.val)
                ELSE tag_definitions
        body == IF tag_definitions.exc # "" THEN tag_definitions
                ELSE IF ~truthy(tag_definitions.val)
                     THEN Ok([repository |-> repo_name, tag |-> tag,
                              info |-> "no support information"])
                ELSE IF defs.exc # "" THEN defs
                ELSE SupportLoop(defs.val, 1, repo_name, tag)
    IN  IF token.exc # "" THEN token
        ELSE IF response.exc # "" THEN response
        ELSE IF body.exc \in {"KeyError", "TypeError"} THEN Raise("DHISearchError")
        ELSE body

----------------------------------------------------------------------------
(* server.py: the command surface *)

\* what a tool hands back: the handler's return value, {"error": str(e)}
\* for a DHISearchError, and any other exception raised out of the tool
ToolResult(r) ==
    IF r.exc = "" THEN [kind |-> "return", exc |-> "", value |-> r.val]
    ELSE IF r.exc = "DHISearchError"
         THEN [kind |-> "return", exc |-> "", value |-> [error |-> "DHISearchError"]]
    ELSE [kind |-> "raise", exc |-> r.exc, value |-> [raised |-> r.exc]]

\* the extracted index as find_matches reads it: names and their tag lists
CatalogOf(image_data) ==
    [i \in 1..Len(image_data) |->
        [name |-> image_data[i][1].v,
         tags |-> [k \in 1..Len(image_data[i][2].v) |-> image_data[i][2].v[k].v]]]

\* matched[image_name] = value
SetMatched(matched, image_name, value) ==
    IF \E i \in DOMAIN matched : matched[i][1] = image_name
    THEN [i \in 1..Len(matched) |->
             IF matched[i][1] = image_name THEN <<image_name, value>> ELSE matched[i]]
    ELSE Append(matched, <<image_name, value>>)

\* the scorer's values for a query, from a table of <<query, scores>> pairs
ScoresFor(scores, query) ==
    scores[CHOOSE i \in DOMAIN scores : scores[i][1] = query][2]

\* "for image_name in image_names", from name k on; scores holds the
\* scorer's values for each normalized query over the catalog.  matches is
\* bound to the value find_matches returned, computed once per name.
RECURSIVE SearchLoop(_, _, _, _, _, _)
SearchLoop(image_names, k, catalog, scores, matched, unmatched) ==
    IF k > Len(image_names) THEN [matched |-> matched, unmatched |-> unmatched]
    ELSE CHOOSE out \in
             {IF matches # <<>>
              THEN SearchLoop(image_names, k + 1, catalog, scores,
                              SetMatched(matched, image_names[k], Take(matches, 3)),
                              unmatched)
              ELSE SearchLoop(image_names, k + 1, catalog, scores,
                              matched, Append(unmatched, image_names[k])) :
                  matches \in {find_matches(image_names[k], catalog,
                                            ScoresFor(scores,
                                                NormalizeQuery(image_names[k]))).names}} :
             TRUE

\* search_dhi_catalog(image_names): got and out are bound to the values
\* get_catalog_data and the loop returned
search_dhi_catalog(image_names, token_ok, answer, scores) ==
    CHOOSE response \in
        {IF got.exc # "" THEN ToolResult(Raise(got.exc))
         ELSE CHOOSE r \in
                  {ToolResult(Ok([matched |-> out.matched,
                                  unmatched |-> out.unmatched,
                                  summary |-> [total_searched |-> Len(image_names),
                                               matched_count |-> Len(out.matched),
                                               unmatched_count |-> Len(out.unmatched)]])) :
                       out \in {SearchLoop(image_names, 1, CatalogOf(got.image_data),
                                           scores, <<>>, <<>>)}} :
                  TRUE :
             got \in {get_catalog_data(token_ok, answer)}} :
        TRUE

\* get_dhi_statistics()
get_dhi_statistics(token_ok, answer) ==
    LET got == get_catalog_data(token_ok, answer)
    IN  IF got.exc # "" THEN ToolResult(Raise(got.exc))
        ELSE ToolResult(Ok([statistics |-> got.stats,
                            total_items |-> SumStats(got.stats)]))

\* list_dhi_images(image_type): without a filter the sorted keys of the
\* index; with one, a second token and fetch, read outside any handler
\* for KeyError, TypeError or AttributeError
list_dhi_images(image_type, token_ok, answer, token2_ok, answer2) ==
    LET got == get_catalog_data(token_ok, answer)
        token == get_jwt_token(token2_ok)
        raw_data == fetch_catalog(answer2)
        items == ItemsOf(raw_data.val)
        elems == IF items.exc = "" THEN py_iter(items.val) ELSE items
        picked == IF elems.exc = "" THEN FilterLoop(elems.val, 1, image_type, <<>>) ELSE elems
        Listing(names) == [images |-> sorted(names), count |-> Len(names),
                           filter |-> image_type]
    IN  IF got.exc # "" THEN ToolResult(Raise(got.exc))
        ELSE IF image_type.t = "none"
             THEN ToolResult(Ok(Listing([i \in 1..Len(got.image_data) |->
                                             got.image_data[i][1].v])))
        ELSE IF token.exc # "" THEN ToolResult(token)
        ELSE IF raw_data.exc # "" THEN ToolResult(raw_data)
        ELSE IF picked.exc # "" THEN ToolResult(picked)
        ELSE ToolResult(Ok(Listing(picked.val)))

\* len(x)
py_len(x) ==
    IF x.t \in {"list", "str", "dict"} THEN Ok(Len(x.v)) ELSE Raise("TypeError")

\* list_image_tags(repository_name)
list_image_tags(repository_name, token_ok, answer) ==
    LET tags == get_repository_tags(repository_name, token_ok, answer)
        count == py_len(tags.val)
    IN  IF tags.exc # "" THEN ToolResult(tags)
        ELSE IF count.exc # "" THEN ToolResult(count)
        ELSE ToolResult(Ok([repository |-> repository_name, tags |-> tags.val,
                            count |-> count.val]))

\* get_compliance_info(repository_name): t.lower() exists for str only
get_compliance_info(repository_name, token_ok, answer) ==
    LET tags == get_repository_tags(repository_name, token_ok, answer)
        elems == py_iter(tags.val)
        strs == [i \in 1..Len(elems.val) |-> elems.val[i].v]
        compliance == check_compliance(strs)
    IN  IF tags.exc # "" THEN ToolResult(tags)
        ELSE IF elems.exc # "" THEN ToolResult(elems)
        ELSE IF \E i \in DOMAIN elems.val : elems.val[i].t # "str"
             THEN ToolResult(Raise("AttributeError"))
        ELSE ToolResult(Ok([repository |-> repository_name,
                            compliance |-> compliance,
                            details |-> [fips_tags |-> SelectSeq(strs,
                                             LAMBDA t : contains(<<"-","f","i","p","s">>, lower(t))),
                                         stig_tags |-> SelectSeq(strs,
                                             LAMBDA t : contains(<<"s","t","i","g">>, lower(t)))],
                            summary |-> [fips |-> IF compliance.fips THEN "Supported"
                                                  ELSE "Not found",
                                         stig |-> IF compliance.stig THEN "Supported"
                                                  ELSE "Not found"]]))

\* get_image_support_info(repository_name, tag)
get_image_support_info(repository_name, tag, token_ok, answer) ==
    ToolResult(get_tag_support_info(repository_name, tag, token_ok, answer))

----------------------------------------------------------------------------
(* The server: one tool call at a time.  env holds what the collaborators  *)
(* answer during the call: tokens[k] whether the k-th get_jwt_token call   *)
(* succeeds, answers[k] what the k-th fetch_catalog call yields, scores   *)
(* the scorer's values for each normalized query over the catalog.         *)

MaxNames == 3

\* the names a search is drawn from; none carries an enforced keyword, so
\* a search reads the catalog's names only
SearchNames == {<<"f","o","o">>, <<"F","o","o">>, <<"z","e","d">>}

RepositoryNames == {<<"f","o","o">>, <<"n","o","p","e">>}

TagNames == {<<"1","6">>, <<"9">>}

ImageTypes == <<None, Str(<<"I","M","A","G","E">>), Str(<<"H","E","L","M","_","C","H","A","R","T">>)>>

ZedItem == Item(<< <<<<"n","a","m","e">>, Str(<<"z","e","d">>)>>, <<<<"t","y","p","e">>, Str(<<"H","E","L","M","_","C","H","A","R","T">>)>>,
                   <<<<"t","a","g","N","a","m","e","s">>, List(<<Str(<<"1","-","S","T","I","G">>)>>)>> >>)

NullTagItem == Item(<< <<<<"n","a","m","e">>, Str(<<"f","o","o">>)>>, <<<<"t","y","p","e">>, Str(<<"I","M","A","G","E">>)>>,
                       <<<<"t","a","g","N","a","m","e","s">>, List(<<None>>)>> >>)

\* what the catalog request yields
CatalogAnswers ==
    <<Raise("DHISearchError"),
      Ok(Response(List(<<ItemPool[1], ItemPool[3]>>))),
      Ok(Response(List(<<ZedItem, ItemPool[1]>>))),
      Ok(Response(List(<<ItemPool[1], ItemPool[5]>>))),
      Ok(Response(List(<<>>))),
      Ok(Response(List(<<NullTagItem>>))),
      Ok(Response(List(<<ItemPool[1], None>>))),
      Ok(Response(List(<<Str(<<"x">>)>>))),
      Ok(Dict(<<>>)),
      Ok(Response(None))>>

Support(repo) == Dict(<< <<<<"d","a","t","a">>, Dict(<< <<<<"d","h","i","R","e","p","o","s","i","t","o","r","y">>, repo>> >>)>> >>)

Definitions(defs) == Dict(<< <<<<"t","a","g","D","e","f","i","n","i","t","i","o","n","s">>, defs>> >>)

\* what the support request yields
SupportAnswers ==
    <<Raise("DHISearchError"),
      Ok(Support(Definitions(List(<<
          Dict(<< <<<<"d","i","s","p","l","a","y","N","a","m","e">>, Str(<<"1","6">>)>>,
                  <<<<"t","a","g","N","a","m","e","s">>, List(<<Str(<<"1","6">>), Str(<<"1","6","-","f","i","p","s">>)>>)>>,
                  <<<<"e","n","d","O","f","L","i","f","e">>, None>>,
                  <<<<"e","n","d","O","f","S","u","p","p","o","r","t">>, Str(<<"2","0","3","0">>)>> >>)>>)))),
      Ok(Support(Definitions(List(<<>>)))),
      Ok(Support(Definitions(None))),
      Ok(Support(Definitions(Num(<<"7">>)))),
      Ok(Support(Definitions(List(<<Dict(<< <<<<"t","a","g","N","a","m","e","s">>, None>> >>)>>)))),
      Ok(Support(Definitions(List(<<None>>)))),
      Ok(Support(None)),
      Ok(Dict(<< <<<<"d","a","t","a">>, None>> >>)),
      Ok(Dict(<<>>)),
      Ok(None)>>

\* the catalog a search runs over (empty when get_catalog_data raises)
SearchedCatalog(token_ok, answer) ==
    LET got == get_catalog_data(token_ok, answer)
    IN  IF got.exc = "" THEN CatalogOf(got.image_data) ELSE <<>>

\* the distinct normalized queries of a search, in order of appearance
RECURSIVE Queries(_)
Queries(image_names) ==
    IF image_names = <<>> THEN <<>>
    ELSE LET n == Len(image_names)
             front == Queries(SubSeq(image_names, 1, n - 1))
             q == NormalizeQuery(image_names[n])
         IN  IF q \in Range(front) THEN front ELSE Append(front, q)

\* the scorer's possible values for the queries, as <<query, scores>> pairs
RECURSIVE ScoreTables(_, _)
ScoreTables(queries, catalog) ==
    IF queries = <<>> THEN {<<>>}
    ELSE LET n == Len(queries)
         IN  {Append(t, <<queries[n], l>>) :
                  t \in ScoreTables(SubSeq(queries, 1, n - 1), catalog),
                  l \in ScoreLists(queries[n], catalog)}

Idle == [op |-> "none"]

NoEnv == [tokens |-> <<>>, answers |-> <<>>, scores |-> <<>>]

Init ==
    /\ pc = "idle"
    /\ call = Idle
    /\ env = NoEnv
    /\ ret = NoRet

SearchDhiCatalog ==
    /\ pc = "idle"
    /\ \E image_names \in SeqsUpTo(SearchNames, MaxNames), token_ok \in BOOLEAN,
          a \in DOMAIN CatalogAnswers :
        \E scores \in ScoreTables(Queries(image_names),
                                   SearchedCatalog(token_ok, CatalogAnswers[a])) :
            /\ call' = [op |-> "search_dhi_catalog", image_names |-> image_names]
            /\ env' = [tokens |-> <<token_ok>>, answers |-> <<CatalogAnswers[a]>>,
                       scores |-> scores]
            /\ ret' = search_dhi_catalog(image_names, token_ok, CatalogAnswers[a], scores)
    /\ pc' = "done"

GetDhiStatistics ==
    /\ pc = "idle"
    /\ \E token_ok \in BOOLEAN, a \in DOMAIN CatalogAnswers :
            /\ call' = [op |-> "get_dhi_statistics"]
            /\ env' = [tokens |-> <<token_ok>>, answers |-> <<CatalogAnswers[a]>>,
                       scores |-> <<>>]
            /\ ret' = get_dhi_statistics(token_ok, CatalogAnswers[a])
    /\ pc' = "done"

ListDhiImages ==
    /\ pc = "idle"
    /\ \E t \in DOMAIN ImageTypes, token_ok \in BOOLEAN, token2_ok \in BOOLEAN,
          a \in DOMAIN CatalogAnswers, a2 \in DOMAIN CatalogAnswers :
            /\ call' = [op |-> "list_dhi_images", image_type |-> ImageTypes[t]]
            /\ env' = [tokens |-> <<token_ok, token2_ok>>,
                       answers |-> <<CatalogAnswers[a], CatalogAnswers[a2]>>,
                       scores |-> <<>>]
            /\ ret' = list_dhi_images(ImageTypes[t], token_ok, CatalogAnswers[a],
                                      token2_ok, CatalogAnswers[a2])
    /\ pc' = "done"

ListImageTags ==
    /\ pc = "idle"
    /\ \E repository_name \in RepositoryNames, token_ok \in BOOLEAN,
          a \in DOMAIN CatalogAnswers :
            /\ call' = [op |-> "list_image_tags", repository_name |-> repository_name]
            /\ env' = [tokens |-> <<token_ok>>, answers |-> <<CatalogAnswers[a]>>,
                       scores |-> <<>>]
            /\ ret' = list_image_tags(repository_name, token_ok, CatalogAnswers[a])
    /\ pc' = "done"

GetComplianceInfo ==
    /\ pc = "idle"
    /\ \E repository_name \in RepositoryNames, token_ok \in BOOLEAN,
          a \in DOMAIN CatalogAnswers :
            /\ call' = [op |-> "get_compliance_info", repository_name |-> repository_name]
            /\ env' = [tokens |-> <<token_ok>>, answers |-> <<CatalogAnswers[a]>>,
                       scores |-> <<>>]
            /\ ret' = get_compliance_info(repository_name, token_ok, CatalogAnswers[a])
    /\ pc' = "done"

GetImageSupportInfo ==
    /\ pc = "idle"
    /\ \E repository_name \in RepositoryNames, tag \in TagNames, token_ok \in BOOLEAN,
          a \in DOMAIN SupportAnswers :
            /\ call' = [op |-> "get_image_support_info",
                        repository_name |-> repository_name, tag |-> tag]
            /\ env' = [tokens |-> <<token_ok>>, answers |-> <<SupportAnswers[a]>>,
                       scores |-> <<>>]
            /\ ret' = get_image_support_info(repository_name, tag, token_ok,
                                             SupportAnswers[a])
    /\ pc' = "done"

\* the tool's result has gone back to the client; the server awaits the
\* next call
Reply ==
    /\ pc = "done"
    /\ pc' = "idle"
    /\ call' = Idle
    /\ env' = NoEnv
    /\ ret' = NoRet

Next ==
    \/ SearchDhiCatalog
    \/ GetDhiStatistics
    \/ ListDhiImages
    \/ ListImageTags
    \/ GetComplianceInfo
    \/ GetImageSupportInfo
    \/ Reply

Spec == Init /\ [][Next]_vars

----------------------------------------------------------------------------
(* Properties of find_matches, checked under SpecFind *)

FindDone == pc = "done" /\ call.op = "find_matches"

CatalogNames == {call.catalog[i].name : i \in DOMAIN call.catalog}

\* the scorer's value for catalog name n in this call
ScoreOf(n) == env.scores[CHOOSE i \in DOMAIN call.catalog : call.catalog[i].name = n]

\* the position of name n in a sequence of <<name, score>>
PosIn(pairs, n) == CHOOSE i \in DOMAIN pairs : pairs[i][1] = n

\* hyphens and underscores replaced by spaces, lowercased
Cleaned(n) == [i \in 1..Len(n) |-> IF n[i] \in {"-", "_"} THEN " " ELSE LowerChar(n[i])]

\* C1: find_matches returns at most 5 names, each a key of the supplied
\* catalog and each with a weighted-ratio score of at least 85 against the
\* normalized query.
C1_AtMostFiveAboveFloor ==
    FindDone =>
        /\ Len(ret.value.names) <= 5
        /\ \A i \in DOMAIN ret.value.names :
               /\ ret.value.names[i] \in CatalogNames
               /\ ScoreOf(ret.value.names[i]) >= 85

\* C1 witness: six catalog names score at least 85 and five are returned.
C1_Witness ==
    /\ FindDone
    /\ Cardinality({i \in DOMAIN call.catalog : env.scores[i] >= 85}) >= 6
    /\ Len(ret.value.names) = 5

\* C2: a candidate that passed the score floor and the core-name rule is
\* discarded if and only if some enforced keyword (cli or sdk) is a token of
\* the normalized query and occurs neither in the candidate's cleaned name
\* nor in the lowercased space-joined text of its catalog tags.
C2_KeywordEnforcement ==
    FindDone =>
        \A k \in DOMAIN ret.value.matches :
            LET n == ret.value.matches[k][1]
                tags_text == lower(join(<<" ">>, TagsOf(call.catalog, n)))
            IN  (/\ ret.value.matches[k][2] >= 85
                 /\ CoreNameOk(ret.value.core_name, Cleaned(n)))
                => ((n \notin Range(ret.value.names))
                    <=> \E kw \in {<<"c","l","i">>, <<"s","d","k">>} :
                            /\ kw \in Range(split(NormalizeQuery(call.input_image)))
                            /\ ~contains(kw, Cleaned(n))
                            /\ ~contains(kw, tags_text))

\* C2 witness: the query asks for cli; one candidate without cli in its name
\* is kept because a tag holds it, another is discarded because neither does.
C2_Witness ==
    /\ FindDone
    /\ <<"c","l","i">> \in Range(ret.value.query_parts)
    /\ \E n \in Range(ret.value.names) :
           /\ ~contains(<<"c","l","i">>, Cleaned(n))
           /\ contains(<<"c","l","i">>, lower(join(<<" ">>, TagsOf(call.catalog, n))))
    /\ \E k \in DOMAIN ret.value.matches :
           /\ ret.value.matches[k][2] >= 85
           /\ CoreNameOk(ret.value.core_name, Cleaned(ret.value.matches[k][1]))
           /\ ret.value.matches[k][1] \notin Range(ret.value.names)

\* C3: for every catalog name n, a query equal to n verbatim scores 100
\* against n, and n is not discarded by the core-name containment rule.
C3_VerbatimNeverFiltered ==
    (FindDone /\ call.input_image \in CatalogNames) =>
        /\ ScoreOf(call.input_image) = 100
        /\ CoreNameOk(ret.value.core_name, Cleaned(call.input_image))

\* C8: the returned list is ordered by score, highest first, and names with
\* equal scores keep the order in which the scorer's top-5 selection
\* produced them.
C8_OrderedByScore ==
    FindDone =>
        \A i, j \in DOMAIN ret.value.names :
            i < j =>
                LET a == ret.value.names[i]
                    b == ret.value.names[j]
                IN  /\ ScoreOf(a) >= ScoreOf(b)
                    /\ ScoreOf(a) = ScoreOf(b) =>
                           PosIn(ret.value.matches, a) < PosIn(ret.value.matches, b)

\* C8 witness: three names are returned, two with different scores and two
\* with equal scores.
C8_Witness ==
    /\ FindDone
    /\ Len(ret.value.names) >= 3
    /\ \E i, j \in DOMAIN ret.value.names :
           ScoreOf(ret.value.names[i]) > ScoreOf(ret.value.names[j])
    /\ \E i, j \in DOMAIN ret.value.names :
           i # j /\ ScoreOf(ret.value.names[i]) = ScoreOf(ret.value.names[j])

NonStopTokens(parts) == SelectSeq(parts, LAMBDA p : p \notin stop_words)

\* C9 as stated: the core name is the non-stop-word tokens joined by single
\* spaces, and the full token sequence joined by single spaces when no
\* token is left.
C9_CoreNameJoinsTokens ==
    FindDone =>
        ret.value.core_name =
            IF NonStopTokens(ret.value.query_parts) # <<>>
            THEN join(<<" ">>, NonStopTokens(ret.value.query_parts))
            ELSE join(<<" ">>, ret.value.query_parts)

\* C9 amended: the core name is the non-stop-word tokens joined by single
\* spaces; when no token is left it is the normalized query string itself,
\* its whitespace unchanged.
C9_CoreNameFallsBackToQuery ==
    FindDone =>
        /\ NonStopTokens(ret.value.query_parts) # <<>> =>
               ret.value.core_name = join(<<" ">>, NonStopTokens(ret.value.query_parts))
        /\ NonStopTokens(ret.value.query_parts) = <<>> =>
               ret.value.core_name = ApplyAliases(lower(call.input_image), aliases)

\* C9 witness: a query of stop words only, separated by more than one
\* space; its core name keeps the spaces.
C9_Witness ==
    /\ FindDone
    /\ ret.value.query_parts # <<>>
    /\ NonStopTokens(ret.value.query_parts) = <<>>
    /\ ret.value.core_name # join(<<" ">>, ret.value.query_parts)
    /\ Len(ret.value.core_name) > Len(join(<<" ">>, ret.value.query_parts))

----------------------------------------------------------------------------
(* Properties of extract_image_names, checked under SpecExtract *)

ExtractDone == pc = "done" /\ call.op = "extract_image_names"

\* x has the key and a dict under it
HasDict(x, key) == x.t = "dict" /\ HasKey(x, key) /\ ValueAt(x, key).t = "dict"

\* the expected shape: data, dhiListRepositories and items nested in dicts,
\* items a list, every element a record
Conforms(x) ==
    /\ HasDict(x, <<"d","a","t","a">>)
    /\ HasDict(ValueAt(x, <<"d","a","t","a">>), <<"d","h","i","L","i","s","t","R","e","p","o","s","i","t","o","r","i","e","s">>)
    /\ LET repos == ValueAt(ValueAt(x, <<"d","a","t","a">>), <<"d","h","i","L","i","s","t","R","e","p","o","s","i","t","o","r","i","e","s">>)
       IN  /\ HasKey(repos, <<"i","t","e","m","s">>)
           /\ ValueAt(repos, <<"i","t","e","m","s">>).t = "list"
           /\ \A k \in DOMAIN ValueAt(repos, <<"i","t","e","m","s">>).v :
                  ValueAt(repos, <<"i","t","e","m","s">>).v[k].t = "dict"

ItemsIn(x) == ValueAt(ValueAt(ValueAt(x, <<"d","a","t","a">>), <<"d","h","i","L","i","s","t","R","e","p","o","s","i","t","o","r","i","e","s">>), <<"i","t","e","m","s">>).v

\* a record with an optional str name, an optional str type and an
\* optional list of str tags (null counts as absent for name and tags)
WellFormedItem(item) ==
    /\ HasKey(item, <<"n","a","m","e">>) => ValueAt(item, <<"n","a","m","e">>).t \in {"none", "str"}
    /\ HasKey(item, <<"t","y","p","e">>) => ValueAt(item, <<"t","y","p","e">>).t \in {"none", "str"}
    /\ HasKey(item, <<"t","a","g","N","a","m","e","s">>) =>
           \/ ValueAt(item, <<"t","a","g","N","a","m","e","s">>).t = "none"
           \/ /\ ValueAt(item, <<"t","a","g","N","a","m","e","s">>).t = "list"
              /\ \A k \in DOMAIN ValueAt(item, <<"t","a","g","N","a","m","e","s">>).v :
                     ValueAt(item, <<"t","a","g","N","a","m","e","s">>).v[k].t = "str"

WellFormed(x) == Conforms(x) /\ \A k \in DOMAIN ItemsIn(x) : WellFormedItem(ItemsIn(x)[k])

HasName(item) ==
    /\ HasKey(item, <<"n","a","m","e">>)
    /\ ValueAt(item, <<"n","a","m","e">>).t = "str"
    /\ ValueAt(item, <<"n","a","m","e">>).v # <<>>

\* the label an item is counted under
LabelOf(item) == IF HasKey(item, <<"t","y","p","e">>) THEN ValueAt(item, <<"t","y","p","e">>) ELSE Str(<<"U","n","k","n","o","w","n">>)

RECURSIVE SumCounts(_)
SumCounts(stats) == IF stats = <<>> THEN 0 ELSE stats[1][2] + SumCounts(Tail(stats))

\* C4: for every catalog input that does not conform to the expected shape,
\* extract_image_names fails with DHISearchError and with no other error,
\* and returns nothing.
C4_MisshapenRaisesDHISearchError ==
    (ExtractDone /\ ~Conforms(call.catalog_data)) =>
        ret.kind = "raise" /\ ret.exc = "DHISearchError"

\* C5: for every well-formed item list the type counts sum to the number of
\* items with a non-empty name; every such item is counted once, under its
\* type or under "Unknown" when it has no type key; items without a name
\* change neither the counts nor the index.
C5_TypeCountsSumToNamedItems ==
    (ExtractDone /\ WellFormed(call.catalog_data)) =>
        LET items == ItemsIn(call.catalog_data)
            named == {k \in DOMAIN items : HasName(items[k])}
            only_named == extract_image_names(Response(List(SelectSeq(items, HasName))))
        IN  /\ ret.kind = "return"
            /\ SumCounts(ret.stats) = Cardinality(named)
            /\ \A e \in DOMAIN ret.stats :
                   ret.stats[e][2] =
                       Cardinality({k \in named : SameValue(LabelOf(items[k]), ret.stats[e][1])})
            /\ \A k \in named :
                   /\ \E e \in DOMAIN ret.stats : SameValue(ret.stats[e][1], LabelOf(items[k]))
                   /\ \E e \in DOMAIN ret.image_data :
                          SameValue(ret.image_data[e][1], ValueAt(items[k], <<"n","a","m","e">>))
            /\ \A e \in DOMAIN ret.image_data :
                   \E k \in named : SameValue(ret.image_data[e][1], ValueAt(items[k], <<"n","a","m","e">>))
            /\ ret.stats = only_named.stats
            /\ ret.image_data = only_named.image_data

\* C5 witness: a well-formed list of three items: one without a name, one
\* named without a type key, one named with a type.
C5_Witness ==
    /\ ExtractDone
    /\ WellFormed(call.catalog_data)
    /\ LET items == ItemsIn(call.catalog_data)
       IN  /\ Len(items) = 3
           /\ \E k \in DOMAIN items : ~HasName(items[k])
           /\ \E k \in DOMAIN items : HasName(items[k]) /\ ~HasKey(items[k], <<"t","y","p","e">>)
           /\ \E k \in DOMAIN items : HasName(items[k]) /\ HasKey(items[k], <<"t","y","p","e">>)
    /\ SumCounts(ret.stats) = 2
    /\ \E e \in DOMAIN ret.stats : ret.stats[e][1] = Str(<<"U","n","k","n","o","w","n">>)

----------------------------------------------------------------------------
(* Properties of check_compliance, checked under SpecCompliance *)

ComplianceDone == pc = "done" /\ call.op = "check_compliance"

Orderings(n) == {p \in [1..n -> 1..n] : \A i, j \in 1..n : p[i] = p[j] => i = j}

\* C7: fips is true iff some tag, lowercased, contains "-fips"; stig is true
\* iff some tag, lowercased, contains "stig"; the empty list yields
\* {false, false}; the result does not depend on the order of the tags.
C7_ComplianceFlags ==
    ComplianceDone =>
        /\ ret.value.fips <=> \E i \in DOMAIN call.tags : contains(<<"-","f","i","p","s">>, lower(call.tags[i]))
        /\ ret.value.stig <=> \E i \in DOMAIN call.tags : contains(<<"s","t","i","g">>, lower(call.tags[i]))
        /\ call.tags = <<>> => (~ret.value.fips /\ ~ret.value.stig)
        /\ \A p \in Orderings(Len(call.tags)) :
               check_compliance([i \in 1..Len(call.tags) |-> call.tags[p[i]]]) = ret.value

\* C7 witness: several tags, the only FIPS tag last and in upper case, a tag
\* holding "fips" without the hyphen, and no STIG tag: fips without stig.
C7_Witness ==
    /\ ComplianceDone
    /\ Len(call.tags) = 3
    /\ call.tags[1] = <<"f","i","p","s">>
    /\ call.tags[3] = <<"7","-","F","I","P","S","-","s","l","i","m">>
    /\ ~contains(<<"-","f","i","p","s">>, lower(call.tags[2]))
    /\ ret.value.fips
    /\ ~ret.value.stig

----------------------------------------------------------------------------
(* Properties of the command surface, checked under Spec *)

ToolDone == pc = "done"

IsErrorResponse(value) == DOMAIN value = {"error"}

\* the first collaborator call of the tool fails
FirstCallFails == ~env.tokens[1] \/ env.answers[1].exc # ""

\* C6: every command-surface operation maps every internal failure,
\* a malformed response on any of its fetches included, to a response of
\* shape {error: string}: no failure leaves the operation as an exception,
\* and a failing collaborator call yields the error response
C6_FailuresBecomeErrorResponses ==
    ToolDone =>
        /\ ret.kind = "return"
        /\ FirstCallFails => IsErrorResponse(ret.value)

SearchDone ==
    /\ pc = "done"
    /\ call.op = "search_dhi_catalog"
    /\ ret.kind = "return"
    /\ ~IsErrorResponse(ret.value)

\* what find_matches returns for the k-th input name of the search
FoundFor(k) ==
    find_matches(call.image_names[k],
                 SearchedCatalog(env.tokens[1], env.answers[1]),
                 ScoresFor(env.scores, NormalizeQuery(call.image_names[k]))).names

MatchedKeys == {ret.value.matched[i][1] : i \in DOMAIN ret.value.matched}

\* C10: for every list of input names and every fetched catalog,
\* search_dhi_catalog puts each input name in exactly one of matched (when
\* find_matches returns a non-empty list; the value is its first at most 3
\* names) and unmatched (otherwise); matched_count and unmatched_count are
\* the sizes of the two outputs and add up to total_searched, the number of
\* input names
C10_SearchPartitionsNames ==
    SearchDone =>
        /\ \A k \in DOMAIN call.image_names :
               /\ (call.image_names[k] \in MatchedKeys) <=> (FoundFor(k) # <<>>)
               /\ (call.image_names[k] \in Range(ret.value.unmatched))
                      <=> (FoundFor(k) = <<>>)
        /\ \A i \in DOMAIN ret.value.matched :
               /\ ret.value.matched[i][2] # <<>>
               /\ Len(ret.value.matched[i][2]) <= 3
               /\ \E k \in DOMAIN call.image_names :
                      /\ call.image_names[k] = ret.value.matched[i][1]
                      /\ ret.value.matched[i][2] = Take(FoundFor(k), 3)
        /\ ret.value.summary.matched_count = Len(ret.value.matched)
        /\ ret.value.summary.unmatched_count = Len(ret.value.unmatched)
        /\ ret.value.summary.total_searched = Len(call.image_names)
        /\ ret.value.summary.matched_count + ret.value.summary.unmatched_count
               = ret.value.summary.total_searched

====
